---- MODULE Spec2Model ----
(***************************************************************************)
(* Model of src/main.py: the users.db profile store, the per-chat daily    *)
(* job scheduler, the conversational settings flow of on_text and the      *)
(* horoscope provider chain.                                               *)
(*                                                                         *)
(* Python values are tagged records (PyNone, PyBool, PyStr, PyInt,         *)
(* PyList); dicts are functions on string keys.  users.db holds JSON       *)
(* values (JNull, JBool, JStr, JNum, JArr), so that json.dumps/json.loads  *)
(* are real conversions.  Message texts are ASCII transliterations of the  *)
(* Russian strings of the source.                                          *)
(***************************************************************************)
EXTENDS Integers, Sequences, FiniteSets, TLC

VARIABLES
    file,             \* content of DB_PATH (users.db)
    phase,            \* "boot" | "polling" | "crashed": position of the process
    user_daily_jobs,  \* dict chat_id -> Job (0 = no entry)
    job_queue,        \* app.job_queue: the set of scheduled (live) jobs
    chat_data,        \* context.chat_data per chat: the set of flags that are set
    inflight,         \* send_daily_one coroutines suspended in await send_message
    reg,              \* per chat, the hours passed to schedule_daily_for since the process started
    last,             \* observable effects of the latest handler or callback
    steps,            \* number of updates, job events and stops so far
    probe             \* inputs and result of a pure function under test

vars == <<file, phase, user_daily_jobs, job_queue, chat_data, inflight, reg, last, steps, probe>>

----------------------------------------------------------------------------
(* Bounds *)

MaxChat == 2
MaxInflight == 1
MaxSteps == 4

Chats == 1..MaxChat

----------------------------------------------------------------------------
(* Python and JSON values *)

PyNone == [t |-> "NoneType"]
PyBool(b) == [t |-> "bool", v |-> b]
PyStr(s) == [t |-> "str", v |-> s]
PyInt(n) == [t |-> "int", v |-> n]
PyList(s) == [t |-> "list", v |-> s]

JNull == [j |-> "null"]
JBool(b) == [j |-> "bool", v |-> b]
JStr(s) == [j |-> "string", v |-> s]
JNum(n) == [j |-> "number", v |-> n]
JArr(s) == [j |-> "array", v |-> s]

EmptyDict == [k \in {} |-> PyNone]

\* bool(v) of Python
Truthy(v) ==
    CASE v.t = "NoneType" -> FALSE
      [] v.t = "bool" -> v.v
      [] v.t = "str" -> v.v # ""
      [] v.t = "int" -> v.v # 0
      [] v.t = "list" -> v.v # <<>>

\* d.get(k)
Get(d, k) == IF k \in DOMAIN d THEN d[k] ELSE PyNone

\* d.setdefault(k, v): only a missing key is filled
SetDefault(d, k, v) == IF k \in DOMAIN d THEN d ELSE d @@ (k :> v)

\* d[k] = v
SetItem(d, k, v) == [x \in (DOMAIN d) \cup {k} |-> IF x = k THEN v ELSE d[x]]

\* json.dumps of one value
DumpVal(v) ==
    CASE v.t = "NoneType" -> JNull
      [] v.t = "bool" -> JBool(v.v)
      [] v.t = "str" -> JStr(v.v)
      [] v.t = "int" -> JNum(v.v)
      [] v.t = "list" -> JArr(v.v)

\* json.loads of one value
LoadVal(x) ==
    CASE x.j = "null" -> PyNone
      [] x.j = "bool" -> PyBool(x.v)
      [] x.j = "string" -> PyStr(x.v)
      [] x.j = "number" -> PyInt(x.v)
      [] x.j = "array" -> PyList(x.v)

DumpDict(d) == [k \in DOMAIN d |-> DumpVal(d[k])]
LoadDict(o) == [k \in DOMAIN o |-> LoadVal(o[k])]

\* str(chat_id) and int(cid)
StrOf(n) == CASE n = 1 -> "1" [] n = 2 -> "2" [] n = 3 -> "3" [] OTHER -> "4"
IntOf(s) == CASE s = "1" -> 1 [] s = "2" -> 2 [] s = "3" -> 3 [] OTHER -> 4

----------------------------------------------------------------------------
(* users.db *)

DEFAULT_SEND_HOUR == 7

\* The file is absent, is text json.loads rejects, or is a JSON document:
\* a list, an object without "users", an object whose "users" is a list,
\* or an object whose "users" maps str(chat_id) to a profile object.
FileOf(kind, users) == [kind |-> kind, users |-> users]
OkFile(users) == FileOf("ok", users)

\* load_db: the parsed document, or {"users": {}} when the file is absent
\* or unparseable.  A parsed document of any shape is returned as it is.
load_db(f) ==
    IF f.kind \in {"absent", "garbage"}
    THEN OkFile(EmptyDict)
    ELSE f

\* db["users"].get(...) and db["users"][...] = ... raise unless the
\* document is an object with a "users" mapping
UsersRaises(db) == db.kind # "ok"

\* save_db
save_db(db) == db

\* get_user: [raised, val]
get_user(f, chat_id) ==
    LET db == load_db(f)
    IN  IF UsersRaises(db)
        THEN [raised |-> TRUE, val |-> EmptyDict]
        ELSE [raised |-> FALSE,
              val |-> IF StrOf(chat_id) \in DOMAIN db.users
                      THEN LoadDict(db.users[StrOf(chat_id)])
                      ELSE EmptyDict]

\* A set_user that writes a store holding the one record only
set_user_overwrites_store(f, chat_id, data) ==
    LET db == load_db(f)
    IN  IF UsersRaises(db)
        THEN [raised |-> TRUE, file |-> f]
        ELSE [raised |-> FALSE,
              file |-> save_db(OkFile(SetItem(EmptyDict, StrOf(chat_id), DumpDict(data))))]

\* set_user: [raised, file]
set_user(f, chat_id, data) ==
    LET db == load_db(f)
    IN  IF UsersRaises(db)
        THEN [raised |-> TRUE, file |-> f]
        ELSE [raised |-> FALSE,
              file |-> save_db(OkFile(SetItem(db.users, StrOf(chat_id), DumpDict(data))))]

WithDefaults(u) ==
    LET u1 == SetDefault(u, "mode", PyStr("city"))
        u2 == SetDefault(u1, "city", PyStr("Praha"))
        u3 == SetDefault(u2, "coords", PyNone)
        u4 == SetDefault(u3, "daily_hour", PyInt(DEFAULT_SEND_HOUR))
        u5 == SetDefault(u4, "horo_enabled", PyNone)
    IN  SetDefault(u5, "horo_sign", PyNone)

\* ensure_defaults: [raised, u, file]
ensure_defaults(f, chat_id) ==
    LET g == get_user(f, chat_id)
        u == WithDefaults(g.val)
        s == set_user(f, chat_id, u)
    IN  IF g.raised \/ s.raised
        THEN [raised |-> TRUE, u |-> EmptyDict, file |-> f]
        ELSE [raised |-> FALSE, u |-> u, file |-> s.file]

----------------------------------------------------------------------------
(* Scheduler *)

\* The in-memory scheduler state handled by schedule_daily_for
Sched(udj, jq, rg) == [udj |-> udj, jq |-> jq, reg |-> rg]

\* A removal that the queue does not carry out
schedule_removal_ignored(jq, id) == jq

\* old.schedule_removal(): the job leaves the queue
schedule_removal(jq, id) == {j \in jq : j.id # id}

\* Identity of the Job object run_daily creates: the least one that is
\* neither queued nor held in user_daily_jobs for another chat
NewJobId(jq, udj, chat_id) ==
    LET used == {j.id : j \in jq} \cup {udj[c] : c \in Chats \ {chat_id}}
    IN  CHOOSE i \in 1..(Cardinality(used) + 1) :
            i \notin used /\ \A k \in 1..(i - 1) : k \in used

\* schedule_daily_for without the removal of the old job
schedule_daily_for_keeps_old(S, chat_id, hour) ==
    LET job == [id |-> NewJobId(S.jq, S.udj, chat_id), chat_id |-> chat_id, hour |-> hour]
    IN  Sched([S.udj EXCEPT ![chat_id] = job.id],
              S.jq \cup {job},
              [S.reg EXCEPT ![chat_id] = Append(@, hour)])

schedule_daily_for(S, chat_id, hour) ==
    LET old == S.udj[chat_id]
        jq1 == IF old # 0 THEN schedule_removal(S.jq, old) ELSE S.jq
        job == [id |-> NewJobId(jq1, S.udj, chat_id), chat_id |-> chat_id, hour |-> hour]
    IN  Sched([S.udj EXCEPT ![chat_id] = job.id],
              jq1 \cup {job},
              [S.reg EXCEPT ![chat_id] = Append(@, hour)])

----------------------------------------------------------------------------
(* Message texts.  "Da" = «Да», "Net" = «Нет», "Otmena" = «Отмена»,        *)
(* "<leo> Lev" = «♌ Лев», "Vvesti vruchnuyu" = «Ввести вручную»; the BTN_  *)
(* texts are the settings and back buttons with their emoji.              *)

BTN_TIME == "<clock> Vremya rassylki"
BTN_CITY == "<city> Izmenit gorod"
BTN_SIGN == "<aries> Znak zodiaka"
BTN_BACK == "<back> Nazad"

Texts ==
    {"Da", "Net", "Otmena", "<leo> Lev", "9", "24", "-1", "abc",
     BTN_TIME, BTN_CITY, BTN_SIGN, BTN_BACK, "Vvesti vruchnuyu",
     "today", "Praha"}

\* str.lower()
Lower(t) ==
    CASE t = "Da" -> "da"
      [] t = "Net" -> "net"
      [] t = "Otmena" -> "otmena"
      [] t = "<leo> Lev" -> "<leo> lev"
      [] t = "Vvesti vruchnuyu" -> "vvesti vruchnuyu"
      [] t = "Praha" -> "praha"
      [] t = BTN_TIME -> "<clock> vremya rassylki"
      [] t = BTN_CITY -> "<city> izmenit gorod"
      [] t = BTN_SIGN -> "<aries> znak zodiaka"
      [] t = BTN_BACK -> "<back> nazad"
      [] OTHER -> t

\* The chain of .replace(glyph, "") and the final .strip() of normalize_sign
StripGlyphs(t) ==
    CASE t = "<leo> lev" -> "lev"
      [] t = "<aries> znak zodiaka" -> "znak zodiaka"
      [] OTHER -> t

ZodiacSigns ==
    {"aries", "taurus", "gemini", "cancer", "leo", "virgo", "libra", "scorpio",
     "sagittarius", "capricorn", "aquarius", "pisces"}

ZODIAC_MAP_RU_EN ==
    [k \in {"oven", "telec", "bliznecy", "rak", "lev", "deva", "vesy", "skorpion",
            "strelec", "kozerog", "vodoley", "ryby"} \cup ZodiacSigns |->
        CASE k = "oven" -> "aries" [] k = "telec" -> "taurus"
          [] k = "bliznecy" -> "gemini" [] k = "rak" -> "cancer"
          [] k = "lev" -> "leo" [] k = "deva" -> "virgo"
          [] k = "vesy" -> "libra" [] k = "skorpion" -> "scorpio"
          [] k = "strelec" -> "sagittarius" [] k = "kozerog" -> "capricorn"
          [] k = "vodoley" -> "aquarius" [] k = "ryby" -> "pisces"
          [] OTHER -> k]

\* normalize_sign: "" stands for None
normalize_sign(text) ==
    LET t == StripGlyphs(Lower(text))
    IN  IF t \in DOMAIN ZODIAC_MAP_RU_EN THEN ZODIAC_MAP_RU_EN[t] ELSE ""

\* int(text): [ok, v]; ok = FALSE is ValueError
ParseInt(t) ==
    CASE t = "9" -> [ok |-> TRUE, v |-> 9]
      [] t = "24" -> [ok |-> TRUE, v |-> 24]
      [] t = "-1" -> [ok |-> TRUE, v |-> -1]
      [] OTHER -> [ok |-> FALSE, v |-> 0]

\* The try block without its range check
ParseHour_any_int(t) ==
    LET p == ParseInt(t)
    IN  IF p.ok THEN [ok |-> TRUE, hour |-> p.v] ELSE [ok |-> FALSE, hour |-> 0]

\* The try block of on_text, lines 882-888: [ok, hour]
ParseHour(t) ==
    LET p == ParseInt(t)
    IN  IF p.ok /\ 0 <= p.v /\ p.v <= 23
        THEN [ok |-> TRUE, hour |-> p.v]
        ELSE [ok |-> FALSE, hour |-> 0]

----------------------------------------------------------------------------
(* Texts produced by the providers and the translation *)

EmptyText == [k |-> "empty"]
\* "Гороскоп недоступен."
HoroPlaceholder == [k |-> "horoscope_unavailable"]
\* "Не удалось получить гороскоп на сегодня."
HoroFailed == [k |-> "horoscope_failed"]
\* The description a provider returns for a sign
Desc(by, sign) == [k |-> "desc", by |-> by, sign |-> sign, ru |-> FALSE]

\* What one HTTP exchange with a provider can yield
ProviderOutcomes == {"valid", "empty", "status", "malformed", "exception"}
\* What the DeepL exchange can yield: no key configured, a translation, an
\* error (exception or non-success status), a translation that is empty
TranslateOutcomes == {"nokey", "ok", "error", "empty"}

HoroInputs ==
    [p1 : ProviderOutcomes, p2 : ProviderOutcomes, key : BOOLEAN, tr : TranslateOutcomes]

\* translate_to_ru
translate_to_ru(text, tr) ==
    IF text = EmptyText THEN text
    ELSE CASE tr = "nokey" -> text
           [] tr = "ok" -> [text EXCEPT !.ru = TRUE]
           [] tr = "empty" -> EmptyText
           [] OTHER -> text

\* x or "Гороскоп недоступен."
OrPlaceholder(x) == IF x = EmptyText THEN HoroPlaceholder ELSE x

\* The body of one try block of fetch_horoscope: [raised, returned, text].
\* requests raising and r.json() raising leave the block by an exception;
\* a non-success status or an empty description falls out of it.
ProviderAttempt(by, sign_en, out, tr) ==
    IF out \in {"exception", "malformed"}
    THEN [raised |-> TRUE, returned |-> FALSE, text |-> EmptyText]
    ELSE IF out = "valid"
         THEN [raised |-> FALSE, returned |-> TRUE,
               text |-> OrPlaceholder(translate_to_ru(Desc(by, sign_en), tr))]
         ELSE [raised |-> FALSE, returned |-> FALSE, text |-> EmptyText]

\* except Exception: log.warning(...)
ExceptLogged(att) == [att EXCEPT !.raised = FALSE]

\* The two try blocks in the other order
fetch_horoscope_rapidapi_first(sign_en, o) ==
    LET a1 == ExceptLogged(ProviderAttempt("aztro", sign_en, o.p1, o.tr))
        a2 == ExceptLogged(ProviderAttempt("rapidapi", sign_en, o.p2, o.tr))
    IN  IF o.key /\ a2.returned THEN [raised |-> FALSE, text |-> a2.text]
        ELSE IF a1.returned THEN [raised |-> FALSE, text |-> a1.text]
        ELSE [raised |-> FALSE, text |-> HoroFailed]

\* fetch_horoscope: [raised, text]
fetch_horoscope(sign_en, o) ==
    LET a1 == ExceptLogged(ProviderAttempt("aztro", sign_en, o.p1, o.tr))
        a2 == ExceptLogged(ProviderAttempt("rapidapi", sign_en, o.p2, o.tr))
    IN  IF a1.raised THEN [raised |-> TRUE, text |-> EmptyText]
        ELSE IF a1.returned THEN [raised |-> FALSE, text |-> a1.text]
        ELSE IF o.key /\ a2.raised THEN [raised |-> TRUE, text |-> EmptyText]
        ELSE IF o.key /\ a2.returned THEN [raised |-> FALSE, text |-> a2.text]
        ELSE [raised |-> FALSE, text |-> HoroFailed]

\* The Russian name shown in the horoscope header: the first key of
\* ZODIAC_MAP_RU_EN that maps to the sign
SignRu(sign) ==
    LET ks == {k \in DOMAIN ZODIAC_MAP_RU_EN : ZODIAC_MAP_RU_EN[k] = sign /\ k \notin ZodiacSigns}
    IN  IF ks # {} THEN CHOOSE k \in ks : TRUE ELSE sign

WeatherOutcomes == {"ok", "fail"}

\* A get_today_msg that does not read the stored profile: the forecast
\* is for the city a new profile starts with
get_today_msg_unread_profile(f, chat_id, w) ==
    LET e == ensure_defaults(f, chat_id)
    IN  IF e.raised THEN [raised |-> TRUE, file |-> f, part |-> [b |-> "none"]]
        ELSE [raised |-> FALSE, file |-> e.file,
              part |-> IF w = "fail"
                       THEN [b |-> "weather_failed"]
                       ELSE [b |-> "fmt_now", loc |-> WithDefaults(EmptyDict)["city"]]]

\* get_today_msg: [raised, file, part]
get_today_msg(f, chat_id, w) ==
    LET e == ensure_defaults(f, chat_id)
        u == e.u
        loc == IF Get(u, "mode") = PyStr("geo") /\ Truthy(Get(u, "coords"))
               THEN u["coords"]
               ELSE IF "city" \in DOMAIN u THEN u["city"] ELSE PyStr("Praha")
    IN  IF e.raised THEN [raised |-> TRUE, file |-> f, part |-> [b |-> "none"]]
        ELSE [raised |-> FALSE, file |-> e.file,
              part |-> IF w = "fail"
                       THEN [b |-> "weather_failed"]
                       ELSE [b |-> "fmt_now", loc |-> loc]]

----------------------------------------------------------------------------
(* Handlers.  A handler's outcome is a record                              *)
(*   [raised, file, cd, S, sched, reply]                                   *)
(* raised: an exception left the handler; file: users.db afterwards;       *)
(* cd: the chat's chat_data flags afterwards; S: the scheduler state       *)
(* afterwards; sched: the schedule_daily_for calls made, in order;         *)
(* reply: which reply_text was sent.                                       *)

Flags ==
    {"awaiting_horo_yesno", "awaiting_zodiac_pick", "settings_mode",
     "awaiting_hour", "awaiting_city", "weather_mode"}

Out(f, cd, S, sched, reply) ==
    [raised |-> FALSE, file |-> f, cd |-> cd, S |-> S, sched |-> sched, reply |-> reply]

\* An exception out of ensure_defaults, before the handler changed anything
Raise(f, cd, S) ==
    [raised |-> TRUE, file |-> f, cd |-> cd, S |-> S, sched |-> <<>>, reply |-> ""]

Call(chat_id, hour) == [chat_id |-> chat_id, hour |-> hour]

\* set_user from a handler that has passed ensure_defaults
Stored(f, chat_id, u) == set_user(f, chat_id, u).file

\* start
start(f, cd, S, chat_id) ==
    LET e == ensure_defaults(f, chat_id)
        hour == e.u["daily_hour"].v
        S1 == schedule_daily_for(S, chat_id, hour)
    IN  IF e.raised THEN Raise(f, cd, S)
        ELSE IF Get(e.u, "horo_enabled") = PyNone
        THEN Out(e.file, cd \cup {"awaiting_horo_yesno"}, S1, <<Call(chat_id, hour)>>,
                 "ask_horoscope_yes_no")
        ELSE Out(e.file, cd, S1, <<Call(chat_id, hour)>>, "ready_menu")

\* cmd_weather
cmd_weather(f, cd, S, chat_id) ==
    LET e == ensure_defaults(f, chat_id)
    IN  IF e.raised THEN Raise(f, cd, S)
        ELSE Out(e.file, cd \cup {"weather_mode"}, S, <<>>, "choose_today_tomorrow")

\* cmd_today: the forecast, or the failure line
cmd_today(f, cd, S, chat_id, w) ==
    LET m == get_today_msg(f, chat_id, w)
    IN  IF m.raised THEN Raise(f, cd, S)
        ELSE Out(m.file, cd, S, <<>>, IF w = "fail" THEN "forecast_failed" ELSE "forecast")

\* cmd_horoscope
cmd_horoscope(f, cd, S, chat_id, o) ==
    LET e == ensure_defaults(f, chat_id)
        sign == Get(e.u, "horo_sign")
        h == fetch_horoscope(sign.v, o)
    IN  IF e.raised THEN Raise(f, cd, S)
        ELSE IF ~Truthy(sign)
        THEN Out(e.file, cd \cup {"awaiting_zodiac_pick"}, S, <<>>, "pick_sign")
        ELSE IF h.raised THEN Raise(e.file, cd, S)
        ELSE Out(e.file, cd, S, <<>>, "horoscope")

\* cmd_settings
cmd_settings(f, cd, S, chat_id) ==
    LET e == ensure_defaults(f, chat_id)
    IN  IF e.raised THEN Raise(f, cd, S)
        ELSE Out(e.file, cd \cup {"settings_mode"}, S, <<>>, "settings_menu")

\* on_location
on_location(f, cd, S, chat_id, loc) ==
    LET e == ensure_defaults(f, chat_id)
        u1 == SetItem(e.u, "mode", PyStr("geo"))
        u2 == SetItem(u1, "coords", PyList(loc))
    IN  IF e.raised THEN Raise(f, cd, S)
        ELSE Out(Stored(e.file, chat_id, u2), cd, S, <<>>, "source_geo")

\* A yes/no branch whose answer no is stored while the question stays open
on_text_horo_yesno_no_keeps_flag(f, cd, S, chat_id, text, u) ==
    IF Lower(text) = "da"
    THEN Out(Stored(f, chat_id, SetItem(u, "horo_enabled", PyBool(TRUE))),
             (cd \ {"awaiting_horo_yesno"}) \cup {"awaiting_zodiac_pick"}, S, <<>>,
             "ok_pick_sign")
    ELSE IF Lower(text) = "net"
    THEN Out(Stored(f, chat_id, SetItem(u, "horo_enabled", PyBool(FALSE))),
             cd, S, <<>>, "horoscope_off")
    ELSE Out(f, cd, S, <<>>, "answer_yes_or_no")

\* on_text, lines 831-847: the yes/no question of /start
on_text_horo_yesno(f, cd, S, chat_id, text, u) ==
    IF Lower(text) = "da"
    THEN Out(Stored(f, chat_id, SetItem(u, "horo_enabled", PyBool(TRUE))),
             (cd \ {"awaiting_horo_yesno"}) \cup {"awaiting_zodiac_pick"}, S, <<>>,
             "ok_pick_sign")
    ELSE IF Lower(text) = "net"
    THEN Out(Stored(f, chat_id, SetItem(u, "horo_enabled", PyBool(FALSE))),
             cd \ {"awaiting_horo_yesno"}, S, <<>>, "horoscope_off")
    ELSE Out(f, cd, S, <<>>, "answer_yes_or_no")

\* on_text, lines 850-866: the choice of the sign
on_text_zodiac_pick(f, cd, S, chat_id, text, u) ==
    LET sign == normalize_sign(text)
        u1 == SetItem(u, "horo_sign", PyStr(sign))
        u2 == SetDefault(u1, "horo_enabled", PyBool(TRUE))
    IN  IF Lower(text) = "otmena"
        THEN Out(f, cd \ {"awaiting_zodiac_pick"}, S, <<>>, "cancelled")
        ELSE IF sign = ""
        THEN Out(f, cd, S, <<>>, "pick_sign_from_keyboard")
        ELSE Out(Stored(f, chat_id, u2), cd \ {"awaiting_zodiac_pick"}, S, <<>>, "sign_saved")

\* on_text, lines 874-894: the entry of the hour
on_text_hour(f, cd, S, chat_id, text, u) ==
    LET p == ParseHour(text)
    IN  IF Lower(text) = "otmena"
        THEN Out(f, cd \ {"awaiting_hour"}, S, <<>>, "cancelled_to_settings")
        ELSE IF Lower(text) = "vvesti vruchnuyu"
        THEN Out(f, cd, S, <<>>, "type_the_hour")
        ELSE IF ~p.ok
        THEN Out(f, cd, S, <<>>, "hour_must_be_0_23")
        ELSE Out(Stored(f, chat_id, SetItem(u, "daily_hour", PyInt(p.hour))),
                 cd \ {"awaiting_hour"},
                 schedule_daily_for(S, chat_id, p.hour),
                 <<Call(chat_id, p.hour)>>, "daily_at_hour")

\* on_text, lines 901-911: the entry of the city
on_text_city(f, cd, S, chat_id, text, u) ==
    IF text = ""
    THEN Out(f, cd, S, <<>>, "enter_valid_city")
    ELSE Out(Stored(f, chat_id, SetItem(SetItem(u, "city", PyStr(text)), "mode", PyStr("city"))),
             cd \ {"awaiting_city"}, S, <<>>, "city_set")

\* on_text, lines 869-924: the settings menu
on_text_settings(f, cd, S, chat_id, text, u) ==
    IF text = BTN_TIME
    THEN Out(f, cd \cup {"awaiting_hour"}, S, <<>>, "choose_hour")
    ELSE IF "awaiting_hour" \in cd
    THEN on_text_hour(f, cd, S, chat_id, text, u)
    ELSE IF text = BTN_CITY
    THEN Out(f, cd \cup {"awaiting_city"}, S, <<>>, "enter_city")
    ELSE IF "awaiting_city" \in cd
    THEN on_text_city(f, cd, S, chat_id, text, u)
    ELSE IF text = BTN_SIGN
    THEN Out(f, cd \cup {"awaiting_zodiac_pick"}, S, <<>>, "pick_sign")
    ELSE IF text = BTN_BACK
    THEN Out(f, cd \ {"settings_mode"}, S, <<>>, "back_to_commands")
    ELSE Out(f, cd, S, <<>>, "choose_settings_item")

\* on_text, lines 927-946: the /weather keyboard
on_text_weather(f, cd, S, chat_id, text, u, w) ==
    IF Lower(text) = "today"
    THEN cmd_today(f, cd, S, chat_id, w)
    ELSE IF Lower(text) = "praha"
    THEN Out(Stored(f, chat_id, SetItem(SetItem(u, "mode", PyStr("city")), "city", PyStr("Praha"))),
             cd, S, <<>>, "source_praha")
    ELSE IF Lower(text) = Lower(BTN_BACK)
    THEN Out(f, cd \ {"weather_mode"}, S, <<>>, "back_to_commands")
    ELSE Out(f, cd, S, <<>>, "press_today_or_tomorrow")

\* on_text
on_text(f, cd, S, chat_id, text, w) ==
    LET e == ensure_defaults(f, chat_id)
    IN  IF e.raised THEN Raise(f, cd, S)
        ELSE IF "awaiting_horo_yesno" \in cd
        THEN on_text_horo_yesno(e.file, cd, S, chat_id, text, e.u)
        ELSE IF "awaiting_zodiac_pick" \in cd
        THEN on_text_zodiac_pick(e.file, cd, S, chat_id, text, e.u)
        ELSE IF "settings_mode" \in cd
        THEN on_text_settings(e.file, cd, S, chat_id, text, e.u)
        ELSE IF "weather_mode" \in cd
        THEN on_text_weather(e.file, cd, S, chat_id, text, e.u, w)
        ELSE Out(e.file, cd, S, <<>>, "commands")

----------------------------------------------------------------------------
(* The daily job *)

DailyHeader == [b |-> "daily_header"]
HoroBlock(sign, htxt) == <<[b |-> "horo_header", sign_ru |-> SignRu(sign)], [b |-> "horo_text", text |-> htxt]>>

\* A callback that tests horo_enabled only: with no sign stored it calls
\* fetch_horoscope and fails on the header
send_daily_one_without_sign_test(f, chat_id, w, o) ==
    LET e == ensure_defaults(f, chat_id)
        u == e.u
        m == get_today_msg(e.file, chat_id, w)
        txt == <<DailyHeader, m.part>>
        withHoro == Truthy(Get(u, "horo_enabled"))
        h == fetch_horoscope(u["horo_sign"].v, o)
    IN  IF e.raised
        THEN [escaped |-> TRUE, caught |-> FALSE, file |-> f, txt |-> <<>>,
              u |-> EmptyDict, horo_called |-> FALSE]
        ELSE IF m.raised
        THEN [escaped |-> FALSE, caught |-> TRUE, file |-> e.file, txt |-> <<>>,
              u |-> u, horo_called |-> FALSE]
        ELSE IF ~withHoro
        THEN [escaped |-> FALSE, caught |-> FALSE, file |-> m.file, txt |-> txt,
              u |-> u, horo_called |-> FALSE]
        ELSE IF ~Truthy(Get(u, "horo_sign"))
        THEN [escaped |-> FALSE, caught |-> TRUE, file |-> m.file, txt |-> <<>>,
              u |-> u, horo_called |-> TRUE]
        ELSE [escaped |-> FALSE, caught |-> FALSE, file |-> m.file,
              txt |-> txt \o HoroBlock(u["horo_sign"].v, h.text),
              u |-> u, horo_called |-> TRUE]

\* A callback that gives up on the horoscope once the weather has failed
send_daily_one_weather_only(f, chat_id, w, o) ==
    LET e == ensure_defaults(f, chat_id)
        u == e.u
        m == get_today_msg(e.file, chat_id, w)
        txt == <<DailyHeader, m.part>>
        withHoro == w # "fail" /\ Truthy(Get(u, "horo_enabled")) /\ Truthy(Get(u, "horo_sign"))
        h == fetch_horoscope(u["horo_sign"].v, o)
    IN  IF e.raised
        THEN [escaped |-> TRUE, caught |-> FALSE, file |-> f, txt |-> <<>>,
              u |-> EmptyDict, horo_called |-> FALSE]
        ELSE IF m.raised
        THEN [escaped |-> FALSE, caught |-> TRUE, file |-> e.file, txt |-> <<>>,
              u |-> u, horo_called |-> FALSE]
        ELSE IF ~withHoro
        THEN [escaped |-> FALSE, caught |-> FALSE, file |-> m.file, txt |-> txt,
              u |-> u, horo_called |-> FALSE]
        ELSE IF h.raised
        THEN [escaped |-> FALSE, caught |-> TRUE, file |-> m.file, txt |-> <<>>,
              u |-> u, horo_called |-> TRUE]
        ELSE [escaped |-> FALSE, caught |-> FALSE, file |-> m.file,
              txt |-> txt \o HoroBlock(u["horo_sign"].v, h.text),
              u |-> u, horo_called |-> TRUE]

\* send_daily_one up to its await of send_message:
\* [escaped, caught, file, txt, u, horo_called].  escaped: an exception left
\* the callback; caught: the except clause ran; u: the record the callback
\* holds; horo_called: fetch_horoscope was called
send_daily_one(f, chat_id, w, o) ==
    LET e == ensure_defaults(f, chat_id)
        u == e.u
        m == get_today_msg(e.file, chat_id, w)
        txt == <<DailyHeader, m.part>>
        withHoro == Truthy(Get(u, "horo_enabled")) /\ Truthy(Get(u, "horo_sign"))
        h == fetch_horoscope(u["horo_sign"].v, o)
    IN  IF e.raised
        THEN [escaped |-> TRUE, caught |-> FALSE, file |-> f, txt |-> <<>>,
              u |-> EmptyDict, horo_called |-> FALSE]
        ELSE IF m.raised
        THEN [escaped |-> FALSE, caught |-> TRUE, file |-> e.file, txt |-> <<>>,
              u |-> u, horo_called |-> FALSE]
        ELSE IF ~withHoro
        THEN [escaped |-> FALSE, caught |-> FALSE, file |-> m.file, txt |-> txt,
              u |-> u, horo_called |-> FALSE]
        ELSE IF h.raised
        THEN [escaped |-> FALSE, caught |-> TRUE, file |-> m.file, txt |-> <<>>,
              u |-> u, horo_called |-> TRUE]
        ELSE [escaped |-> FALSE, caught |-> FALSE, file |-> m.file,
              txt |-> txt \o HoroBlock(u["horo_sign"].v, h.text),
              u |-> u, horo_called |-> TRUE]

\* main, lines 998-1001: ensure_defaults and schedule_daily_for for the
\* chats of the store, in the order of their keys: [raised, file, S, sched]
RECURSIVE rehydrate(_, _, _, _)
rehydrate(f, S, sched, todo) ==
    IF todo = {}
    THEN [raised |-> FALSE, file |-> f, S |-> S, sched |-> sched]
    ELSE LET cid == CHOOSE c \in todo : \A d \in todo : c <= d
             e == ensure_defaults(f, cid)
             hour == e.u["daily_hour"].v
         IN  IF e.raised
             THEN [raised |-> TRUE, file |-> f, S |-> S, sched |-> sched]
             ELSE rehydrate(e.file, schedule_daily_for(S, cid, hour),
                            Append(sched, Call(cid, hour)), todo \ {cid})

\* main without the loop that re-registers the stored chats
main_without_rehydration(f, S) ==
    LET db == load_db(f)
    IN  IF UsersRaises(db)
        THEN [raised |-> TRUE, file |-> f, S |-> S, sched |-> <<>>]
        ELSE [raised |-> FALSE, file |-> f, S |-> S, sched |-> <<>>]

main(f, S) ==
    LET db == load_db(f)
    IN  IF UsersRaises(db)
        THEN [raised |-> TRUE, file |-> f, S |-> S, sched |-> <<>>]
        ELSE rehydrate(f, S, <<>>, {IntOf(k) : k \in DOMAIN db.users})

----------------------------------------------------------------------------
(* State machine *)

NoProbe == [fn |-> "none"]

Locs == {<<50, 14>>}

\* What the environment lets the horoscope and DeepL exchanges of a handler
\* or job yield
EnvHoro ==
    {o \in HoroInputs :
        /\ o.p1 \in {"valid", "status"}
        /\ o.p2 \in {"valid", "exception"}
        /\ o.tr \in {"nokey", "empty"}
        /\ (o.p1 = "valid" => o.p2 = "valid" /\ o.key)
        /\ (o.tr = "empty" => o.p1 = "valid")}

\* What the latest handler or callback did.  env: what the weather and
\* horoscope exchanges of the step yielded, and whether the job callback
\* called fetch_horoscope; sched: its schedule_daily_for
\* calls; reply: its reply_text; sent: the message it handed to
\* send_message, or whose send_message ended
NoEnv == [w |-> "none"]
Env(w, o) == [w |-> w, o |-> o, horo_called |-> FALSE]

Event(op, chat_id, raised, env, sched, reply, sent) ==
    [op |-> op, chat |-> chat_id, raised |-> raised, env |-> env, sched |-> sched,
     reply |-> reply, sent |-> sent]

\* A users.db left by earlier runs: chat 1 chose the hour 8 and the sign
\* leo, chat 2 chose the hour 9 and was never asked about the horoscope
Profile(mode, city, coords, hour, enabled, sign) ==
    [mode |-> mode, city |-> city, coords |-> coords, daily_hour |-> hour,
     horo_enabled |-> enabled, horo_sign |-> sign]

SeededFile ==
    OkFile(("1" :> DumpDict(Profile(PyStr("city"), PyStr("Praha"), PyNone, PyInt(8),
                                    PyBool(TRUE), PyStr("leo"))))
           @@ ("2" :> DumpDict(Profile(PyStr("city"), PyStr("Praha"), PyNone, PyInt(9),
                                       PyNone, PyNone))))

\* users.db as the process finds it at its first start
InitFiles ==
    {FileOf("absent", EmptyDict),
     FileOf("garbage", EmptyDict),
     FileOf("json_list", EmptyDict),
     FileOf("json_object_without_users", EmptyDict),
     FileOf("json_users_is_list", EmptyDict),
     SeededFile}

Init ==
    /\ file \in InitFiles
    /\ phase = "boot"
    /\ user_daily_jobs = [c \in Chats |-> 0]
    /\ job_queue = {}
    /\ chat_data = [c \in Chats |-> {}]
    /\ inflight = [c \in Chats |-> <<>>]
    /\ reg = [c \in Chats |-> <<>>]
    /\ last = Event("init", 0, FALSE, NoEnv, <<>>, "", <<>>)
    /\ steps = 0
    /\ probe = NoProbe

CurSched == Sched(user_daily_jobs, job_queue, reg)

\* One more event, while the bound on their number allows it
Tick == steps < MaxSteps /\ steps' = steps + 1

\* The effect of a handler of chat c with outcome R
Handled(op, c, R, env) ==
    /\ file' = R.file
    /\ chat_data' = [chat_data EXCEPT ![c] = R.cd]
    /\ user_daily_jobs' = R.S.udj
    /\ job_queue' = R.S.jq
    /\ reg' = R.S.reg
    /\ last' = Event(op, c, R.raised, env, R.sched, R.reply, <<>>)
    /\ UNCHANGED <<phase, inflight, probe>>

Start(c) ==
    /\ phase = "polling"
    /\ Tick
    /\ Handled("start", c, start(file, chat_data[c], CurSched, c), NoEnv)

CmdWeather(c) ==
    /\ phase = "polling"
    /\ Tick
    /\ Handled("cmd_weather", c, cmd_weather(file, chat_data[c], CurSched, c), NoEnv)

CmdHoroscope(c) ==
    /\ phase = "polling"
    /\ Tick
    /\ \E o \in EnvHoro :
        Handled("cmd_horoscope", c, cmd_horoscope(file, chat_data[c], CurSched, c, o), NoEnv)

CmdSettings(c) ==
    /\ phase = "polling"
    /\ Tick
    /\ Handled("cmd_settings", c, cmd_settings(file, chat_data[c], CurSched, c), NoEnv)

\* on_text of chat c for one message text
OnTextOf(c, text) ==
    /\ phase = "polling"
    /\ Tick
    /\ \E w \in IF Lower(text) = "today" THEN WeatherOutcomes ELSE {"ok"} :
        Handled("on_text", c, on_text(file, chat_data[c], CurSched, c, text, w), NoEnv)

OnText(c) == \E text \in Texts : OnTextOf(c, text)

OnLocation(c) ==
    /\ phase = "polling"
    /\ Tick
    /\ \E loc \in Locs :
        Handled("on_location", c, on_location(file, chat_data[c], CurSched, c, loc), NoEnv)

\* The effect of the job callback of chat c with outcome r, up to its await
\* of send_message
Fired(c, job, env, r) ==
    LET msg == [to |-> c, txt |-> r.txt, hour |-> job.hour, u |-> r.u]
        handed == ~r.escaped /\ ~r.caught
    IN  /\ file' = r.file
        /\ inflight' = IF handed THEN [inflight EXCEPT ![c] = Append(@, msg)] ELSE inflight
        /\ last' = Event("send_daily_one", c, r.escaped,
                         [env EXCEPT !.horo_called = r.horo_called], <<>>,
                         IF r.caught THEN "error_logged" ELSE "",
                         IF handed THEN <<msg>> ELSE <<>>)
        /\ UNCHANGED <<phase, user_daily_jobs, job_queue, chat_data, reg, probe>>

\* A live job fires: send_daily_one runs up to its await of send_message
SendDailyOne(c) ==
    /\ phase = "polling"
    /\ Tick
    /\ Len(inflight[c]) < MaxInflight
    /\ \E job \in job_queue, w \in WeatherOutcomes, o \in EnvHoro :
        /\ job.chat_id = c
        /\ Fired(c, job, Env(w, o), send_daily_one(file, c, w, o))

\* A callback that writes the record it read before the await back after it
SendMessageDone_writes_back(c) ==
    /\ phase = "polling"
    /\ Tick
    /\ \E i \in 1..Len(inflight[c]), ok \in BOOLEAN :
        /\ inflight' = [inflight EXCEPT ![c] = SubSeq(@, 1, i - 1) \o SubSeq(@, i + 1, Len(@))]
        /\ file' = set_user(file, c, inflight[c][i].u).file
        /\ last' = Event("send_message", c, FALSE, NoEnv, <<>>,
                         IF ok THEN "delivered" ELSE "error_logged", <<inflight[c][i]>>)
    /\ UNCHANGED <<phase, user_daily_jobs, job_queue, chat_data, reg, probe>>

\* send_message raised and nothing caught it: the queue drops the job
SendMessageDone_uncaught(c) ==
    /\ phase = "polling"
    /\ Tick
    /\ \E i \in 1..Len(inflight[c]), ok \in BOOLEAN :
        /\ inflight' = [inflight EXCEPT ![c] = SubSeq(@, 1, i - 1) \o SubSeq(@, i + 1, Len(@))]
        /\ job_queue' = IF ok THEN job_queue ELSE {j \in job_queue : j.chat_id # c}
        /\ last' = Event("send_message", c, ~ok, NoEnv, <<>>,
                         IF ok THEN "delivered" ELSE "error_logged", <<inflight[c][i]>>)
    /\ UNCHANGED <<file, phase, user_daily_jobs, chat_data, reg, probe>>

\* send_message returns or raises; the except clause of send_daily_one
\* logs what it raised
SendMessageDone(c) ==
    /\ phase = "polling"
    /\ Tick
    /\ \E i \in 1..Len(inflight[c]), ok \in BOOLEAN :
        /\ inflight' = [inflight EXCEPT ![c] = SubSeq(@, 1, i - 1) \o SubSeq(@, i + 1, Len(@))]
        /\ last' = Event("send_message", c, FALSE, NoEnv, <<>>,
                         IF ok THEN "delivered" ELSE "error_logged", <<inflight[c][i]>>)
    /\ UNCHANGED <<file, phase, user_daily_jobs, job_queue, chat_data, reg, probe>>

\* The process stops: everything but users.db is lost
Stop ==
    /\ phase \in {"polling", "crashed"}
    /\ Tick
    /\ phase' = "boot"
    /\ user_daily_jobs' = [c \in Chats |-> 0]
    /\ job_queue' = {}
    /\ chat_data' = [c \in Chats |-> {}]
    /\ inflight' = [c \in Chats |-> <<>>]
    /\ reg' = [c \in Chats |-> <<>>]
    /\ last' = Event("stop", 0, FALSE, NoEnv, <<>>, "", <<>>)
    /\ UNCHANGED <<file, probe>>

\* The effect of main() with outcome r
Booted(r) ==
    /\ phase' = IF r.raised THEN "crashed" ELSE "polling"
    /\ file' = r.file
    /\ user_daily_jobs' = r.S.udj
    /\ job_queue' = r.S.jq
    /\ reg' = r.S.reg
    /\ last' = Event("main", 0, r.raised, NoEnv, r.sched, "", <<>>)
    /\ UNCHANGED <<chat_data, inflight, steps, probe>>

\* The process starts: main() up to run_polling
Main ==
    /\ phase = "boot"
    /\ Booted(main(file, CurSched))

Next ==
    \/ \E c \in Chats : Start(c)
    \/ \E c \in Chats : CmdWeather(c)
    \/ \E c \in Chats : CmdHoroscope(c)
    \/ \E c \in Chats : CmdSettings(c)
    \/ \E c \in Chats : OnText(c)
    \/ \E c \in Chats : OnLocation(c)
    \/ \E c \in Chats : SendDailyOne(c)
    \/ \E c \in Chats : SendMessageDone(c)
    \/ Stop
    \/ Main

Spec == Init /\ [][Next]_vars

\* fetch_horoscope on its own: one call for a sign under every combination
\* of what the two providers and DeepL yield
HoroSigns == {"leo", "aries"}

HoroInit ==
    /\ probe \in {[fn |-> "fetch_horoscope", sign |-> z, o |-> o, done |-> FALSE,
                   out |-> [raised |-> FALSE, text |-> EmptyText]] :
                      z \in HoroSigns, o \in HoroInputs}
    /\ file = FileOf("absent", EmptyDict)
    /\ phase = "boot"
    /\ user_daily_jobs = [c \in Chats |-> 0]
    /\ job_queue = {}
    /\ chat_data = [c \in Chats |-> {}]
    /\ inflight = [c \in Chats |-> <<>>]
    /\ reg = [c \in Chats |-> <<>>]
    /\ last = Event("init", 0, FALSE, NoEnv, <<>>, "", <<>>)
    /\ steps = 0

HoroCall ==
    /\ probe.fn = "fetch_horoscope"
    /\ ~probe.done
    /\ probe' = [probe EXCEPT !.done = TRUE, !.out = fetch_horoscope(probe.sign, probe.o)]
    /\ UNCHANGED <<file, phase, user_daily_jobs, job_queue, chat_data, inflight, reg,
                   last, steps>>

SpecHoro == HoroInit /\ [][HoroCall]_vars

----------------------------------------------------------------------------
(* Properties *)

\* The profiles users.db holds, as get_user returns them
StoredIds == {IntOf(k) : k \in DOMAIN load_db(file).users}
StoredProfile(c) == get_user(file, c).val
JobsOf(c) == {j \in job_queue : j.chat_id = c}

\* C1: for every chat, after any sequence of schedule_daily_for calls of
\* the running process, exactly one job of that chat is live in the job
\* queue, it is the one user_daily_jobs holds, and its hour is the hour
\* passed to the latest call.
C1_OneLiveJobAtLatestHour ==
    \A c \in Chats :
        reg[c] # <<>> =>
            /\ Cardinality(JobsOf(c)) = 1
            /\ \A j \in JobsOf(c) :
                j.hour = reg[c][Len(reg[c])] /\ j.id = user_daily_jobs[c]

\* C1 witness: a chat registered at one hour and then at another
C1_Witness ==
    \E c \in Chats :
        /\ Len(reg[c]) >= 2
        /\ reg[c][1] # reg[c][2]
        /\ Cardinality(JobsOf(c)) = 1

\* C2: when main() has run after a restart, and before any update is
\* handled, every chat id of the persisted store has exactly one live job,
\* at the daily_hour the store holds for it.
C2_RehydratedOnStart ==
    (last.op = "main" /\ ~last.raised) =>
        /\ phase = "polling"
        /\ \A c \in StoredIds :
            /\ Cardinality(JobsOf(c)) = 1
            /\ \A j \in JobsOf(c) : j.hour = StoredProfile(c)["daily_hour"].v

\* C2 witness: a restart after which two stored chats are registered at
\* different hours
C2_Witness ==
    /\ last.op = "main"
    /\ steps > 0
    /\ \E c, d \in StoredIds :
        \E j \in JobsOf(c), k \in JobsOf(d) : j.hour # k.hour

\* C4: every profile of the persisted store has daily_hour an integer in
\* 0..23, horo_sign None or one of the 12 canonical signs, horo_enabled
\* None, True or False, and mode city or geo.
C4_StoredProfilesInDomain ==
    \A c \in StoredIds :
        LET p == StoredProfile(c)
        IN  /\ {"daily_hour", "horo_sign", "horo_enabled", "mode"} \subseteq DOMAIN p
            /\ p["daily_hour"] \in {PyInt(h) : h \in 0..23}
            /\ p["horo_sign"] \in {PyNone} \cup {PyStr(z) : z \in ZodiacSigns}
            /\ p["horo_enabled"] \in {PyNone, PyBool(TRUE), PyBool(FALSE)}
            /\ p["mode"] \in {PyStr("city"), PyStr("geo")}

\* C4 witness: an hour typed by the user has been committed and a
\* location message has switched the chat to geo
C4_Witness ==
    \E c \in StoredIds :
        /\ last.op = "on_text" /\ last.reply = "daily_at_hour" /\ last.chat = c
        /\ StoredProfile(c)["mode"] = PyStr("geo")

\* The chat is in the hour entry of the settings menu
HourEntry(c) == {"settings_mode", "awaiting_hour"} \subseteq chat_data[c]

\* C3: in the hour entry, a message that is not an integer in 0..23 (the
\* cancel keyword set aside) is answered by a prompt for the hour, leaves
\* users.db as it is, calls schedule_daily_for not at all and keeps
\* awaiting_hour; an integer h in 0..23 stores daily_hour = h, calls
\* schedule_daily_for once with h and leaves the hour entry.
C3_HourEntryValidated ==
    [][\A c \in Chats, t \in Texts \ {"Otmena"} :
        (HourEntry(c) /\ OnTextOf(c, t)) =>
            LET p == ParseInt(t)
            IN  IF p.ok /\ p.v \in 0..23
                THEN /\ get_user(file', c).val["daily_hour"] = PyInt(p.v)
                     /\ last'.sched = <<Call(c, p.v)>>
                     /\ "awaiting_hour" \notin chat_data'[c]
                ELSE /\ file' = file
                     /\ last'.sched = <<>>
                     /\ "awaiting_hour" \in chat_data'[c]
                     /\ last'.reply \in {"hour_must_be_0_23", "type_the_hour", "choose_hour"}]_vars

\* The first provider, in the order of fetch_horoscope, whose exchange gives
\* a non-empty description
FirstValid(o) ==
    IF o.p1 = "valid" THEN "aztro"
    ELSE IF o.key /\ o.p2 = "valid" THEN "rapidapi"
    ELSE "none"

\* C5 as stated: fetch_horoscope never raises, returns the description of
\* the first provider in order that gives a valid one (translated or not),
\* and the fixed failure text when none does.
C5_FirstValidProviderContent ==
    (probe.fn = "fetch_horoscope" /\ probe.done) =>
        /\ ~probe.out.raised
        /\ IF FirstValid(probe.o) = "none"
           THEN probe.out.text = HoroFailed
           ELSE /\ probe.out.text.k = "desc"
                /\ probe.out.text.by = FirstValid(probe.o)
                /\ probe.out.text.sign = probe.sign

\* C5, amended: fetch_horoscope never raises; it returns what
\* translate_to_ru makes of the description of the first provider in order
\* that gives a valid one, or "Гороскоп недоступен." when that translation
\* is empty (the next provider is not tried then); when no provider gives a
\* valid description it returns the fixed failure text.
C5_FirstValidProviderRendered ==
    (probe.fn = "fetch_horoscope" /\ probe.done) =>
        /\ ~probe.out.raised
        /\ LET by == FirstValid(probe.o)
               t == translate_to_ru(Desc(by, probe.sign), probe.o.tr)
           IN  probe.out.text = IF by = "none" THEN HoroFailed
                                ELSE IF t = EmptyText THEN HoroPlaceholder
                                ELSE t

\* C5 witness: the first provider raised and the second one, with a key
\* configured, gave the description that was returned
C5_Witness ==
    /\ probe.fn = "fetch_horoscope" /\ probe.done
    /\ probe.o.p1 = "exception" /\ probe.o.key /\ probe.o.p2 = "valid"
    /\ probe.out.text.k = "desc"
    /\ probe.out.text.by = "rapidapi"

\* The chat's stored profile has the horoscope enabled and a sign
HoroWanted(c) ==
    /\ c \in StoredIds
    /\ Truthy(Get(StoredProfile(c), "horo_enabled"))
    /\ Truthy(Get(StoredProfile(c), "horo_sign"))

\* C6: when a daily job fires for a chat with the horoscope enabled and a
\* sign set, and no provider gives a horoscope, the message handed to
\* send_message has no horoscope header and no horoscope text.
C6_ExhaustedHoroscopeOmitted ==
    (/\ last.op = "send_daily_one"
     /\ HoroWanted(last.chat)
     /\ FirstValid(last.env.o) = "none") =>
        \A i \in 1..Len(last.sent) :
            \A k \in 1..Len(last.sent[i].txt) :
                last.sent[i].txt[k].b \notin {"horo_header", "horo_text"}

\* C7: when a daily job fires, the weather lookup fails, the horoscope is
\* enabled with a sign and a provider gives a horoscope, nothing leaves
\* the callback or its try block, and exactly one message is handed to
\* send_message: the header, the weather-failure line, and the horoscope
\* block of the sign with what fetch_horoscope returned.
C7_WeatherFailureKeepsHoroscope ==
    (/\ last.op = "send_daily_one"
     /\ last.env.w = "fail"
     /\ HoroWanted(last.chat)
     /\ FirstValid(last.env.o) # "none") =>
        /\ ~last.raised
        /\ last.reply # "error_logged"
        /\ Len(last.sent) = 1
        /\ LET txt == last.sent[1].txt
               sign == StoredProfile(last.chat)["horo_sign"].v
           IN  /\ last.sent[1].to = last.chat
               /\ Len(txt) = 4
               /\ txt[1] = DailyHeader
               /\ txt[2] = [b |-> "weather_failed"]
               /\ txt[3] = [b |-> "horo_header", sign_ru |-> SignRu(sign)]
               /\ txt[4].b = "horo_text"
               /\ txt[4].text = fetch_horoscope(sign, last.env.o).text
               /\ txt[4].text # HoroFailed

\* C7 witness: a job fired with the weather failed and the description of
\* a provider in the message
C7_Witness ==
    /\ last.op = "send_daily_one"
    /\ last.env.w = "fail"
    /\ Len(last.sent) = 1
    /\ Len(last.sent[1].txt) = 4
    /\ last.sent[1].txt[2].b = "weather_failed"
    /\ last.sent[1].txt[4].text.k = "desc"

\* C8: when send_message raises for a chat, no exception leaves the job
\* callback, the process keeps polling, the chat's own job stays in the
\* queue, and the job queue, user_daily_jobs and users.db (so the jobs and
\* profiles of every other chat) are as they were.
C8_SendFailureIsLocal ==
    [][(last'.op = "send_message" /\ last'.reply = "error_logged" /\ last' # last) =>
        /\ ~last'.raised
        /\ phase' = "polling"
        /\ JobsOf(last'.chat) # {}
        /\ job_queue' = job_queue
        /\ user_daily_jobs' = user_daily_jobs
        /\ file' = file]_vars

\* C8 witness: a send failed for one chat while it and another chat hold
\* live jobs
C8_Witness ==
    /\ last.op = "send_message" /\ last.reply = "error_logged"
    /\ JobsOf(last.chat) # {}
    /\ \E d \in Chats \ {last.chat} : JobsOf(d) # {}

\* Profile records of the shapes the handlers write
SampleProfiles ==
    {EmptyDict,
     WithDefaults(EmptyDict),
     Profile(PyStr("geo"), PyStr("Brno"), PyList(<<50, 14>>), PyInt(0), PyBool(FALSE),
             PyStr("aries")),
     Profile(PyStr("city"), PyStr(""), PyList(<<>>), PyInt(23), PyBool(TRUE), PyNone)}

\* C9: on a store set_user can write, set_user(id, p) followed by
\* get_user(id) returns p, the records of all other ids are as before, and
\* a second set_user(id, p) leaves the file as the first one wrote it.
C9_SetThenGet ==
    \A c \in Chats, p \in SampleProfiles :
        LET s == set_user(file, c, p)
        IN  ~s.raised =>
                /\ get_user(s.file, c) = [raised |-> FALSE, val |-> p]
                /\ \A d \in Chats \ {c} : get_user(s.file, d) = get_user(file, d)
                /\ DOMAIN s.file.users = DOMAIN load_db(file).users \cup {StrOf(c)}
                /\ set_user(s.file, c, p).file = s.file

\* C9 witness: on_location wrote the coordinates of one chat, the store
\* returns them, and the store holds another chat as well
C9_Witness ==
    /\ last.op = "on_location"
    /\ ~last.raised
    /\ StoredProfile(last.chat)["coords"] = PyList(<<50, 14>>)
    /\ \E d \in StoredIds : d # last.chat

\* C10: whatever users.db holds when the process starts, no handler and no
\* start-up step raises and the process does not crash.
C10_CorruptStoreTolerated ==
    /\ ~last.raised
    /\ phase # "crashed"

\* The fields of the profile a handler has committed, by its reply
CommittedFields(reply) ==
    CASE reply \in {"ok_pick_sign", "horoscope_off"} -> {"horo_enabled"}
      [] reply = "sign_saved" -> {"horo_sign", "horo_enabled"}
      [] reply = "daily_at_hour" -> {"daily_hour"}
      [] reply \in {"city_set", "source_praha"} -> {"city", "mode"}
      [] reply = "source_geo" -> {"mode", "coords"}
      [] OTHER -> {}

\* C11: in every interleaving of handlers and job callbacks, a field of a
\* chat's stored profile changes only in a step of a handler of that chat
\* that commits this field: no step, whatever record it read earlier,
\* takes a committed value back or drops a field.
C11_NoLostUpdate ==
    [][\A c \in Chats :
        (~get_user(file, c).raised /\ ~get_user(file', c).raised) =>
            \A k \in DOMAIN get_user(file, c).val :
                /\ k \in DOMAIN get_user(file', c).val
                /\ get_user(file', c).val[k] # get_user(file, c).val[k] =>
                        (last'.chat = c /\ k \in CommittedFields(last'.reply))]_vars

\* C11 witness: a send ended for a callback whose record, read before the
\* await, is older than the stored profile, and the stored profile has
\* kept the later commit
C11_Witness ==
    /\ last.op = "send_message"
    /\ last.sent[1].u # StoredProfile(last.chat)
    /\ last.sent[1].u["mode"] = PyStr("city")
    /\ StoredProfile(last.chat)["mode"] = PyStr("geo")

\* C12: while a callback of a chat is between its firing and the end of
\* its send, the chat has exactly one live job, the one user_daily_jobs
\* holds, at the stored daily_hour; and every firing is one of a job at
\* the stored daily_hour, never one at an hour that was replaced.
C12_RescheduleDuringFiring ==
    /\ \A c \in Chats :
        inflight[c] # <<>> =>
            /\ Cardinality(JobsOf(c)) = 1
            /\ \A j \in JobsOf(c) :
                /\ j.id = user_daily_jobs[c]
                /\ PyInt(j.hour) = StoredProfile(c)["daily_hour"]
    /\ (last.op = "send_daily_one" /\ last.sent # <<>>) =>
            PyInt(last.sent[1].hour) = StoredProfile(last.chat)["daily_hour"]

\* C12 witness: the chat committed a new hour while the callback fired at
\* the old hour was still in flight
C12_Witness ==
    \E c \in Chats :
        /\ inflight[c] # <<>>
        /\ last.op = "on_text" /\ last.reply = "daily_at_hour" /\ last.chat = c
        /\ PyInt(inflight[c][1].hour) # StoredProfile(c)["daily_hour"]
        /\ \A j \in JobsOf(c) : j.hour = last.sched[1].hour

\* The flags of chat_data that make on_text await an input
Awaiting == {"awaiting_horo_yesno", "awaiting_zodiac_pick", "awaiting_hour", "awaiting_city"}

\* C13: whenever one of the awaiting flags of a chat is set and the chat
\* sends the cancel keyword, that flag is cleared and users.db is left as
\* it was.
C13_CancelClears ==
    [][\A c \in Chats, fl \in Awaiting :
        (fl \in chat_data[c] /\ OnTextOf(c, "Otmena")) =>
            (fl \notin chat_data'[c] /\ file' = file)]_vars

\* C14: in every reachable state at most one of the awaiting flags is set
\* in a chat's chat_data.
C14_OneAwaitingFlag ==
    \A c \in Chats : Cardinality(chat_data[c] \cap Awaiting) <= 1

\* C15: no stored profile holds coordinates together with a city other
\* than the default one: setting a city discards the coordinates and a
\* location message discards the city the user had set.
C15_OneLocationVariant ==
    \A c \in StoredIds :
        ~ /\ Get(StoredProfile(c), "coords") # PyNone
          /\ Get(StoredProfile(c), "city") \notin {PyNone, PyStr("Praha")}

\* C16: when a daily job fires for a chat whose stored profile has
\* horo_enabled True and horo_sign None, fetch_horoscope is not called,
\* nothing leaves the callback or its try block, and the one message
\* handed to send_message is the header and the weather part only.
C16_EnabledWithoutSign ==
    (/\ last.op = "send_daily_one"
     /\ last.chat \in StoredIds
     /\ Get(StoredProfile(last.chat), "horo_enabled") = PyBool(TRUE)
     /\ Get(StoredProfile(last.chat), "horo_sign") = PyNone) =>
        /\ ~last.raised
        /\ last.reply # "error_logged"
        /\ ~last.env.horo_called
        /\ Len(last.sent) = 1
        /\ Len(last.sent[1].txt) = 2
        /\ last.sent[1].txt[1] = DailyHeader
        /\ last.sent[1].txt[2].b \in {"fmt_now", "weather_failed"}

\* C16 witness: the chat answered yes, cancelled the choice of the sign,
\* and its job fired
C16_Witness ==
    /\ last.op = "send_daily_one"
    /\ last.chat \in StoredIds
    /\ StoredProfile(last.chat)["horo_enabled"] = PyBool(TRUE)
    /\ StoredProfile(last.chat)["horo_sign"] = PyNone
    /\ Len(last.sent) = 1

\* C17: the message of a fired job is composed from the profile users.db
\* holds at the firing: the forecast is for the stored coordinates when
\* the stored mode is geo and coordinates are stored, else for the stored
\* city, and the horoscope block is there exactly when the stored
\* horo_enabled and horo_sign are set, for the stored sign.
C17_FiringReadsStoredProfile ==
    (last.op = "send_daily_one" /\ last.sent # <<>>) =>
        LET u == StoredProfile(last.chat)
            txt == last.sent[1].txt
            loc == IF Get(u, "mode") = PyStr("geo") /\ Truthy(Get(u, "coords"))
                   THEN u["coords"] ELSE u["city"]
            horo == Truthy(Get(u, "horo_enabled")) /\ Truthy(Get(u, "horo_sign"))
        IN  /\ last.sent[1].u = u
            /\ txt[2] = IF last.env.w = "fail" THEN [b |-> "weather_failed"]
                        ELSE [b |-> "fmt_now", loc |-> loc]
            /\ Len(txt) = IF horo THEN 4 ELSE 2
            /\ horo => txt[3] = [b |-> "horo_header", sign_ru |-> SignRu(u["horo_sign"].v)]

\* C17 witness: a job registered at start-up fired after a location
\* message of its chat, and the forecast is for the coordinates
C17_Witness ==
    /\ last.op = "send_daily_one"
    /\ last.sent # <<>>
    /\ reg[last.chat] # <<>>
    /\ last.sent[1].txt[2] = [b |-> "fmt_now", loc |-> PyList(<<50, 14>>)]

\* The inputs an awaiting state with a restricted input set accepts
Accepted(fl, t) ==
    CASE fl = "awaiting_horo_yesno" -> Lower(t) \in {"da", "net"}
      [] fl = "awaiting_zodiac_pick" -> normalize_sign(t) # ""
      [] fl = "awaiting_hour" -> ParseInt(t).ok /\ ParseInt(t).v \in 0..23

\* C18: whenever awaiting_horo_yesno, awaiting_zodiac_pick or
\* awaiting_hour is set for a chat and the chat sends a text that this
\* state does not accept and that is not the cancel keyword, on_text
\* answers with a prompt of an awaiting state and changes neither users.db
\* nor chat_data nor the chat's job.
C18_InvalidInputOnlyReprompts ==
    [][\A c \in Chats, t \in Texts \ {"Otmena"} :
        \A fl \in {"awaiting_horo_yesno", "awaiting_zodiac_pick", "awaiting_hour"} :
            (fl \in chat_data[c] /\ ~Accepted(fl, t) /\ OnTextOf(c, t)) =>
                /\ file' = file
                /\ chat_data' = chat_data
                /\ job_queue' = job_queue
                /\ user_daily_jobs' = user_daily_jobs
                /\ last'.sched = <<>>
                /\ last'.reply \in {"answer_yes_or_no", "pick_sign_from_keyboard",
                                     "hour_must_be_0_23", "type_the_hour", "choose_hour"}]_vars

\* The fields of a chat's stored profile other than horo_enabled are in the
\* next state what they are now
OtherFieldsKept(c) ==
    \A k \in DOMAIN get_user(file, c).val \ {"horo_enabled"} :
        /\ k \in DOMAIN get_user(file', c).val
        /\ get_user(file', c).val[k] = get_user(file, c).val[k]

\* C19: with awaiting_horo_yesno set, the answer yes stores horo_enabled
\* True, clears the flag and sets awaiting_zodiac_pick; the answer no
\* stores horo_enabled False, clears the flag and sets no other flag;
\* either way every other field of the profile and the chat's job are as
\* they were.
C19_YesNoTransitions ==
    [][\A c \in Chats :
        "awaiting_horo_yesno" \in chat_data[c] =>
            /\ OnTextOf(c, "Da") =>
                    /\ get_user(file', c).val["horo_enabled"] = PyBool(TRUE)
                    /\ chat_data'[c] = (chat_data[c] \ {"awaiting_horo_yesno"})
                                            \cup {"awaiting_zodiac_pick"}
                    /\ OtherFieldsKept(c)
                    /\ job_queue' = job_queue
            /\ OnTextOf(c, "Net") =>
                    /\ get_user(file', c).val["horo_enabled"] = PyBool(FALSE)
                    /\ chat_data'[c] = chat_data[c] \ {"awaiting_horo_yesno"}
                    /\ OtherFieldsKept(c)
                    /\ job_queue' = job_queue]_vars

\* C19 witness: one chat has answered yes and awaits the sign, another has
\* just answered no and awaits nothing
C19_Witness ==
    /\ last.op = "on_text" /\ last.reply = "horoscope_off"
    /\ chat_data[last.chat] = {}
    /\ StoredProfile(last.chat)["horo_enabled"] = PyBool(FALSE)
    /\ \E d \in StoredIds \ {last.chat} :
        /\ chat_data[d] = {"awaiting_zodiac_pick"}
        /\ StoredProfile(d)["horo_enabled"] = PyBool(TRUE)

\* C20: while the process is polling, every chat that has a profile in
\* users.db has exactly one live daily job.
C20_StoredChatHasJob ==
    phase = "polling" => \A c \in StoredIds : Cardinality(JobsOf(c)) = 1

\* C21: when the chat is in the choice of the sign (and not in the yes/no
\* question, which on_text serves first) and sends a valid sign, the sign
\* is stored, a horo_enabled of None becomes True, and a horo_enabled of
\* True or False stays as it was.
C21_SignCommitEnablesHoroscope ==
    [][\A c \in Chats, t \in Texts :
        (/\ "awaiting_zodiac_pick" \in chat_data[c]
         /\ "awaiting_horo_yesno" \notin chat_data[c]
         /\ normalize_sign(t) # ""
         /\ OnTextOf(c, t)) =>
            /\ get_user(file', c).val["horo_sign"] = PyStr(normalize_sign(t))
            /\ get_user(file', c).val["horo_enabled"] =
                    IF Get(get_user(file, c).val, "horo_enabled") = PyNone
                    THEN PyBool(TRUE)
                    ELSE get_user(file, c).val["horo_enabled"]]_vars

====
